---- MODULE Spec2Model ----
(***************************************************************************)
(* External scanner of tree-sitter-markdown (src/src/scanner.cc).          *)
(* The scanner state is the struct Scanner; the lexer is the remaining     *)
(* input from the current token start.  One action per entry point.        *)
(***************************************************************************)
EXTENDS Integers, Sequences, FiniteSets, TLC

(* ---- enum TokenType (scanner.cc:11-47) -------------------------------- *)
LINE_ENDING == 0
INDENTATION == 1
VIRTUAL_SPACE == 2
MATCHING_DONE == 3
BLOCK_CLOSE == 4
BLOCK_CLOSE_LOOSE == 5
BLOCK_CONTINUATION == 6
LAZY_CONTINUATION == 7
BLOCK_QUOTE_START == 8
INDENTED_CHUNK_START == 9
ATX_H1_MARKER == 10
ATX_H2_MARKER == 11
ATX_H3_MARKER == 12
ATX_H4_MARKER == 13
ATX_H5_MARKER == 14
ATX_H6_MARKER == 15
SETEXT_H1_UNDERLINE == 16
SETEXT_H2_UNDERLINE == 17
SETEXT_H2_UNDERLINE_OR_THEMATIC_BREAK == 18
THEMATIC_BREAK == 19
LIST_MARKER_MINUS == 20
LIST_MARKER_PLUS == 21
LIST_MARKER_STAR == 22
LIST_MARKER_PARENTHETHIS == 23
LIST_MARKER_DOT == 24
FENCED_CODE_BLOCK_START == 25
BLANK_LINE == 26
CODE_SPAN_START == 27
CODE_SPAN_CLOSE == 28
LAST_TOKEN_WHITESPACE == 29
LAST_TOKEN_PUNCTUATION == 30
EMPHASIS_OPEN_STAR == 31
EMPHASIS_OPEN_UNDERSCORE == 32
EMPHASIS_CLOSE_STAR == 33
EMPHASIS_CLOSE_UNDERSCORE == 34

TokenType == 0..34

(* ---- enum Block : char (scanner.cc:49-58) ----------------------------- *)
BLOCK_QUOTE == 0
INDENTED_CODE_BLOCK == 1
TIGHT_LIST_ITEM == 2
TIGHT_LIST_ITEM_MAX_INDENTATION == 8
LOOSE_LIST_ITEM == 9
LOOSE_LIST_ITEM_MAX_INDENTATION == 15
FENCED_CODE_BLOCK_TILDE == 16
FENCED_CODE_BLOCK_BACKTICK == 17

(* UINT8_MAX, the width of the scalar fields and of the serialized image.  *)
UINT8_MAX == 255

(* ---- bytes of the input (ASCII codes) --------------------------------- *)
NUL == 0
TAB == 9
LF == 10
CR == 13
SPACE == 32
BANG == 33
HASH == 35
RPAREN == 41
STAR == 42
PLUS == 43
MINUS == 45
DOT == 46
DIGIT0 == 48
DIGIT1 == 49
DIGIT9 == 57
EQUALS == 61
GT == 62
UNDERSCORE == 95
BACKTICK == 96
LETTER_A == 97
TILDE == 126

(* ---- pure helpers (scanner.cc:81-99) ---------------------------------- *)
is_list_item(block) ==
    block >= TIGHT_LIST_ITEM /\ block <= LOOSE_LIST_ITEM_MAX_INDENTATION

list_item_indentation(block) ==
    IF block <= TIGHT_LIST_ITEM_MAX_INDENTATION
    THEN (block - TIGHT_LIST_ITEM + 2) % 256
    ELSE (block - LOOSE_LIST_ITEM + 2) % 256

is_punctuation(c) ==
    \/ (c >= 33 /\ c <= 47)
    \/ (c >= 58 /\ c <= 64)
    \/ (c >= 91 /\ c <= 96)
    \/ (c >= 123 /\ c <= 126)

is_whitespace(c) == c = SPACE \/ c = TAB \/ c = LF \/ c = CR

(* uint8_t <-> char conversions of the serialized image (char is signed).  *)
ToChar(u) == IF u > 127 THEN u - 256 ELSE u

ToUint8(c) == IF c < 0 THEN c + 256 ELSE c

Min(a, b) == IF a < b THEN a ELSE b

(* ---- the fields of struct Scanner (scanner.cc:101-110) ---------------- *)
ScannerOf(ob, m, ind, col, csdl, ned, nedl, edio) ==
    [open_blocks |-> ob, matched |-> m, indentation |-> ind, column |-> col,
     code_span_delimiter_length |-> csdl, num_emphasis_delimiters |-> ned,
     num_emphasis_delimiters_left |-> nedl, emphasis_delimiters_is_open |-> edio]

(* ---- Scanner::serialize (scanner.cc:118-132) -------------------------- *)
(* serialize with line 126 writing zero for emphasis_delimiters_is_open.   *)
SerializeOmitsIsOpen(sc) ==
    LET header == <<ToChar(sc.matched), ToChar(sc.indentation), ToChar(sc.column),
                    ToChar(sc.code_span_delimiter_length),
                    ToChar(sc.num_emphasis_delimiters),
                    ToChar(sc.num_emphasis_delimiters_left),
                    0>>
        i == Len(header)
        size == Len(sc.open_blocks)
        blocks_count == IF size > UINT8_MAX - i THEN UINT8_MAX - i ELSE size
    IN  header \o SubSeq(sc.open_blocks, 1, blocks_count)

(* serialize without the cap of line 128 on the block count.               *)
SerializeUncapped(sc) ==
    <<ToChar(sc.matched), ToChar(sc.indentation), ToChar(sc.column),
      ToChar(sc.code_span_delimiter_length), ToChar(sc.num_emphasis_delimiters),
      ToChar(sc.num_emphasis_delimiters_left),
      ToChar(sc.emphasis_delimiters_is_open)>> \o sc.open_blocks

serialize(sc) ==
    LET header == <<ToChar(sc.matched), ToChar(sc.indentation), ToChar(sc.column),
                    ToChar(sc.code_span_delimiter_length),
                    ToChar(sc.num_emphasis_delimiters),
                    ToChar(sc.num_emphasis_delimiters_left),
                    ToChar(sc.emphasis_delimiters_is_open)>>
        i == Len(header)
        size == Len(sc.open_blocks)
        blocks_count == IF size > UINT8_MAX - i THEN UINT8_MAX - i ELSE size
    IN  header \o SubSeq(sc.open_blocks, 1, blocks_count)

(* ---- Scanner::deserialize (scanner.cc:134-156) ------------------------ *)
(* Images are either empty or at least seven bytes long.                   *)
deserialize(buffer) ==
    IF Len(buffer) > 0
    THEN ScannerOf(SubSeq(buffer, 8, Len(buffer)),
                   ToUint8(buffer[1]), ToUint8(buffer[2]), ToUint8(buffer[3]),
                   ToUint8(buffer[4]), ToUint8(buffer[5]), ToUint8(buffer[6]),
                   ToUint8(buffer[7]))
    ELSE ScannerOf(<<>>, 0, 0, 0, 0, 0, 0, 0)

(* ---- the lexer, as scan sees it ---------------------------------------- *)
(* An execution of scan works on a record holding the Scanner fields, the  *)
(* lexer (input from the token start, pos bytes advanced, token_end as set *)
(* by mark_end or -1, result_symbol) and the return status.                *)
Exec(sc, input) ==
    [open_blocks |-> sc.open_blocks, matched |-> sc.matched,
     indentation |-> sc.indentation, column |-> sc.column,
     code_span_delimiter_length |-> sc.code_span_delimiter_length,
     num_emphasis_delimiters |-> sc.num_emphasis_delimiters,
     num_emphasis_delimiters_left |-> sc.num_emphasis_delimiters_left,
     emphasis_delimiters_is_open |-> sc.emphasis_delimiters_is_open,
     input |-> input, pos |-> 0, token_end |-> -1, result_symbol |-> -1,
     done |-> FALSE, ret |-> FALSE, ub |-> FALSE]

ScannerPart(s) ==
    ScannerOf(s.open_blocks, s.matched, s.indentation, s.column,
              s.code_span_delimiter_length, s.num_emphasis_delimiters,
              s.num_emphasis_delimiters_left, s.emphasis_delimiters_is_open)

Lookahead(s) == IF s.pos < Len(s.input) THEN s.input[s.pos + 1] ELSE NUL

eof(s) == s.pos >= Len(s.input)

mark_end(s) == [s EXCEPT !.token_end = s.pos]

Emit(s, sym) == [s EXCEPT !.done = TRUE, !.ret = TRUE, !.result_symbol = sym]

ReturnTrue(s) == [s EXCEPT !.done = TRUE, !.ret = TRUE]

ReturnFalse(s) == [s EXCEPT !.done = TRUE, !.ret = FALSE]

pop_back(blocks) == SubSeq(blocks, 1, Len(blocks) - 1)

IsLineEnd(c) == c = LF \/ c = CR

IsSpaceOrTab(c) == c = SPACE \/ c = TAB

(* ---- Scanner::advance (scanner.cc:158-166) ---------------------------- *)
(* skip only moves the start of the token; the lexer does not move at the  *)
(* end of the input.                                                       *)
advance_size(s) ==
    IF Lookahead(s) = TAB
    THEN (IF s.column % 4 = 0 THEN 4 ELSE 4 - (s.column % 4))
    ELSE 1

advance(s, skip) ==
    [s EXCEPT !.column = (s.column + advance_size(s)) % 256,
              !.pos = IF eof(s) THEN s.pos ELSE s.pos + 1]

(* while (lexer->lookahead == c) advance(lexer, skip);                     *)
RECURSIVE advance_while(_, _, _)
advance_while(s, chars, skip) ==
    IF Lookahead(s) \in chars
    THEN advance_while(advance(s, skip), chars, skip)
    ELSE s

(* while (lookahead is space or tab) extra_indentation += advance(...);    *)
(* returns the columns consumed from s on.                                 *)
RECURSIVE columns_of_spaces(_)
columns_of_spaces(s) ==
    IF IsSpaceOrTab(Lookahead(s))
    THEN advance_size(s) + columns_of_spaces(advance(s, FALSE))
    ELSE 0

(* ---- scan, end of file (scanner.cc:170-182) --------------------------- *)
CloseSymbol(block) ==
    IF block >= LOOSE_LIST_ITEM /\ block <= LOOSE_LIST_ITEM_MAX_INDENTATION
    THEN BLOCK_CLOSE_LOOSE
    ELSE BLOCK_CLOSE

(* Lines 171-179 without the pop_back at 178.                              *)
ScanEofKeepsBlock(s) ==
    IF Len(s.open_blocks) > 0
    THEN Emit(s, CloseSymbol(s.open_blocks[Len(s.open_blocks)]))
    ELSE ReturnFalse(s)

ScanEof(s) ==
    IF Len(s.open_blocks) > 0
    THEN Emit([s EXCEPT !.open_blocks = pop_back(s.open_blocks)],
              CloseSymbol(s.open_blocks[Len(s.open_blocks)]))
    ELSE ReturnFalse(s)

(* ---- scan, inline phase (scanner.cc:183-309) -------------------------- *)
VirtualSpace(s) ==
    Emit([s EXCEPT !.indentation = s.indentation - 1], VIRTUAL_SPACE)

(* Lines 197-199 and 207-209 without the assignment to column.             *)
ResetLineKeepsColumn(s) == [s EXCEPT !.matched = 0, !.indentation = 0]

ResetLine(s) == [s EXCEPT !.matched = 0, !.indentation = 0, !.column = 0]

LineEndingCR(s, valid_symbols) ==
    IF LINE_ENDING \in valid_symbols
    THEN LET s1 == advance(s, TRUE)
             s2 == IF Lookahead(s1) = LF THEN advance(s1, TRUE) ELSE s1
             s3 == advance(s2, TRUE)
         IN  Emit(ResetLine(s3), LINE_ENDING)
    ELSE ReturnFalse(s)

LineEndingLF(s, valid_symbols) ==
    IF LINE_ENDING \in valid_symbols
    THEN Emit(ResetLine(advance(s, TRUE)), LINE_ENDING)
    ELSE ReturnFalse(s)

CodeSpan(s, valid_symbols) ==
    IF CODE_SPAN_START \in valid_symbols \/ CODE_SPAN_CLOSE \in valid_symbols
    THEN LET s1 == advance_while(s, {BACKTICK}, FALSE)
             level == s1.pos - s.pos
         IN  IF level = s1.code_span_delimiter_length /\ CODE_SPAN_CLOSE \in valid_symbols
             THEN Emit(s1, CODE_SPAN_CLOSE)
             ELSE IF CODE_SPAN_START \in valid_symbols
             THEN Emit([s1 EXCEPT !.code_span_delimiter_length = level % 256],
                       CODE_SPAN_START)
             ELSE ReturnFalse(s1)
    ELSE ReturnFalse(s)

DecrementLeft(s) ==
    [s EXCEPT !.num_emphasis_delimiters_left =
                  (s.num_emphasis_delimiters_left - 1) % 256]

(* scanner.cc:232-243 and 269-280: tokens of a run already begun.          *)
EmphasisPending(s, valid_symbols, open_symbol, close_symbol) ==
    IF s.emphasis_delimiters_is_open # 0 /\ open_symbol \in valid_symbols
    THEN Emit(DecrementLeft(advance(s, TRUE)), open_symbol)
    ELSE IF close_symbol \in valid_symbols
    THEN Emit(DecrementLeft(advance(s, TRUE)), close_symbol)
    ELSE ReturnFalse(s)

(* scanner.cc:245-252 and 282-289: count the run, mark the end after the   *)
(* first delimiter.                                                        *)
CountRun(s, c) ==
    LET s1 == mark_end(advance(s, TRUE))
        s2 == advance_while(s1, {c}, TRUE)
        n == (1 + (s2.pos - s1.pos)) % 256
    IN  [s2 EXCEPT !.num_emphasis_delimiters = n,
                   !.num_emphasis_delimiters_left = n]

RightFlanking(valid_symbols, next) ==
    /\ LAST_TOKEN_WHITESPACE \notin valid_symbols
    /\ \/ LAST_TOKEN_PUNCTUATION \notin valid_symbols
       \/ is_punctuation(next)
       \/ is_whitespace(next)

(* Lines 257-258 and 295-296 without the test of LAST_TOKEN_WHITESPACE.    *)
LeftFlankingIgnoresPrevWs(valid_symbols, next) ==
    /\ ~is_whitespace(next)
    /\ \/ ~is_punctuation(next)
       \/ LAST_TOKEN_PUNCTUATION \in valid_symbols

LeftFlanking(valid_symbols, next) ==
    /\ ~is_whitespace(next)
    /\ \/ ~is_punctuation(next)
       \/ LAST_TOKEN_PUNCTUATION \in valid_symbols
       \/ LAST_TOKEN_WHITESPACE \in valid_symbols

(* scanner.cc:244-266 *)
EmphasisStarHead(s, valid_symbols) ==
    LET r == CountRun(s, STAR)
        next == Lookahead(r)
    IN  IF EMPHASIS_CLOSE_STAR \in valid_symbols /\ RightFlanking(valid_symbols, next)
        THEN Emit(DecrementLeft([r EXCEPT !.emphasis_delimiters_is_open = 0]),
                  EMPHASIS_CLOSE_STAR)
        ELSE IF LeftFlanking(valid_symbols, next)
        THEN Emit(DecrementLeft([r EXCEPT !.emphasis_delimiters_is_open = 1]),
                  EMPHASIS_OPEN_STAR)
        ELSE ReturnFalse(r)

(* scanner.cc:231-267 *)
EmphasisStar(s, valid_symbols) ==
    IF s.num_emphasis_delimiters_left > 0
    THEN EmphasisPending(s, valid_symbols, EMPHASIS_OPEN_STAR, EMPHASIS_CLOSE_STAR)
    ELSE IF EMPHASIS_OPEN_STAR \in valid_symbols \/ EMPHASIS_CLOSE_STAR \in valid_symbols
    THEN EmphasisStarHead(s, valid_symbols)
    ELSE ReturnFalse(s)

(* Lines 281-305 with the tests of lines 253-258: the '*' rule applied to  *)
(* a '_' run.                                                              *)
EmphasisUnderscoreHeadAsStar(s, valid_symbols) ==
    LET r == CountRun(s, UNDERSCORE)
        next == Lookahead(r)
    IN  IF EMPHASIS_CLOSE_UNDERSCORE \in valid_symbols /\ RightFlanking(valid_symbols, next)
        THEN Emit(DecrementLeft([r EXCEPT !.emphasis_delimiters_is_open = 0]),
                  EMPHASIS_CLOSE_UNDERSCORE)
        ELSE IF LeftFlanking(valid_symbols, next)
        THEN Emit(DecrementLeft([r EXCEPT !.emphasis_delimiters_is_open = 1]),
                  EMPHASIS_OPEN_UNDERSCORE)
        ELSE ReturnFalse(r)

(* scanner.cc:281-305 *)
EmphasisUnderscoreHead(s, valid_symbols) ==
    LET r == CountRun(s, UNDERSCORE)
        next == Lookahead(r)
        right_flanking == RightFlanking(valid_symbols, next)
        left_flanking == LeftFlanking(valid_symbols, next)
    IN  IF /\ EMPHASIS_CLOSE_UNDERSCORE \in valid_symbols
           /\ right_flanking
           /\ (~left_flanking \/ is_punctuation(next))
        THEN Emit(DecrementLeft([r EXCEPT !.emphasis_delimiters_is_open = 0]),
                  EMPHASIS_CLOSE_UNDERSCORE)
        ELSE IF /\ left_flanking
                /\ (~right_flanking \/ LAST_TOKEN_PUNCTUATION \in valid_symbols)
        THEN Emit(DecrementLeft([r EXCEPT !.emphasis_delimiters_is_open = 1]),
                  EMPHASIS_OPEN_UNDERSCORE)
        ELSE ReturnFalse(r)

(* scanner.cc:268-306 *)
EmphasisUnderscore(s, valid_symbols) ==
    IF s.num_emphasis_delimiters_left > 0
    THEN EmphasisPending(s, valid_symbols, EMPHASIS_OPEN_UNDERSCORE,
                         EMPHASIS_CLOSE_UNDERSCORE)
    ELSE IF \/ EMPHASIS_OPEN_UNDERSCORE \in valid_symbols
            \/ EMPHASIS_CLOSE_UNDERSCORE \in valid_symbols
    THEN EmphasisUnderscoreHead(s, valid_symbols)
    ELSE ReturnFalse(s)

ScanInline(s, valid_symbols) ==
    IF VIRTUAL_SPACE \in valid_symbols /\ s.indentation > 0
    THEN VirtualSpace(s)
    ELSE CASE Lookahead(s) = CR -> LineEndingCR(s, valid_symbols)
           [] Lookahead(s) = LF -> LineEndingLF(s, valid_symbols)
           [] Lookahead(s) = BACKTICK -> CodeSpan(s, valid_symbols)
           [] Lookahead(s) = STAR -> EmphasisStar(s, valid_symbols)
           [] Lookahead(s) = UNDERSCORE -> EmphasisUnderscore(s, valid_symbols)
           [] OTHER -> ReturnFalse(s)

(* ---- scan, INDENTATION preamble (scanner.cc:310-320) ------------------ *)
RECURSIVE IndentationLoop(_)
IndentationLoop(s) ==
    IF IsSpaceOrTab(Lookahead(s))
    THEN IndentationLoop([advance(s, TRUE) EXCEPT
                              !.indentation = (s.indentation + advance_size(s)) % 256])
    ELSE s

IndentationPreamble(s) == Emit(IndentationLoop(s), INDENTATION)

(* bool matching = !check_block && matched < open_blocks.size();  (321)    *)
Matching(s, check_block) == ~check_block /\ s.matched < Len(s.open_blocks)

(* open_blocks[matched], zero-based in the source *)
BlockAtMatched(s) == s.open_blocks[s.matched + 1]

AddMatched(s, n) == [s EXCEPT !.matched = (s.matched + n) % 256]

(* ---- indented code block (scanner.cc:329-348) ------------------------- *)
IndentedCode(s, valid_symbols, check_block, matching) ==
    IF /\ \/ (INDENTED_CHUNK_START \in valid_symbols /\ ~matching)
          \/ (BLOCK_CONTINUATION \in valid_symbols /\ matching
                /\ BlockAtMatched(s) = INDENTED_CODE_BLOCK)
       /\ s.indentation >= 4
       /\ ~IsLineEnd(Lookahead(s))
    THEN IF matching
         THEN Emit(AddMatched([s EXCEPT !.indentation = s.indentation - 4], 2),
                   BLOCK_CONTINUATION)
         ELSE IF LAZY_CONTINUATION \notin valid_symbols
         THEN IF ~check_block
              THEN Emit(AddMatched([s EXCEPT
                            !.open_blocks = Append(s.open_blocks, INDENTED_CODE_BLOCK),
                            !.indentation = s.indentation - 4], 2),
                        INDENTED_CHUNK_START)
              ELSE ReturnTrue(s)
         ELSE s
    ELSE s

(* ---- list item continuation (scanner.cc:349-362) ---------------------- *)
ListItemContinuation(s, valid_symbols, matching) ==
    IF BLOCK_CONTINUATION \in valid_symbols /\ matching /\ is_list_item(BlockAtMatched(s))
    THEN IF s.indentation >= list_item_indentation(BlockAtMatched(s))
         THEN Emit(AddMatched([s EXCEPT !.indentation =
                       s.indentation - list_item_indentation(BlockAtMatched(s))], 1),
                   BLOCK_CONTINUATION)
         ELSE IF IsLineEnd(Lookahead(s))
         THEN Emit(AddMatched([s EXCEPT !.indentation = 0], 1), BLOCK_CONTINUATION)
         ELSE s
    ELSE s

(* ---- blank line (scanner.cc:364-378) ---------------------------------- *)
(* Lines 370-374 converting Loose items back as well.                      *)
ToggleLooseness(blocks) ==
    [i \in 1..Len(blocks) |->
        IF blocks[i] >= TIGHT_LIST_ITEM /\ blocks[i] <= TIGHT_LIST_ITEM_MAX_INDENTATION
        THEN blocks[i] + (LOOSE_LIST_ITEM - TIGHT_LIST_ITEM)
        ELSE IF blocks[i] >= LOOSE_LIST_ITEM /\ blocks[i] <= LOOSE_LIST_ITEM_MAX_INDENTATION
        THEN blocks[i] - (LOOSE_LIST_ITEM - TIGHT_LIST_ITEM)
        ELSE blocks[i]]

(* Lines 370-374 without the conversion.                                   *)
KeepTight(blocks) == blocks

(* Lines 370-374 adding one more than LOOSE_LIST_ITEM - TIGHT_LIST_ITEM.   *)
LooseShifted(blocks) ==
    [i \in 1..Len(blocks) |->
        IF blocks[i] >= TIGHT_LIST_ITEM /\ blocks[i] <= TIGHT_LIST_ITEM_MAX_INDENTATION
        THEN blocks[i] + (LOOSE_LIST_ITEM - TIGHT_LIST_ITEM) + 1
        ELSE blocks[i]]

(* scanner.cc:370-374 *)
TightToLoose(blocks) ==
    [i \in 1..Len(blocks) |->
        IF blocks[i] >= TIGHT_LIST_ITEM /\ blocks[i] <= TIGHT_LIST_ITEM_MAX_INDENTATION
        THEN blocks[i] + (LOOSE_LIST_ITEM - TIGHT_LIST_ITEM)
        ELSE blocks[i]]

BlankLine(s, valid_symbols, check_block, matching) ==
    IF BLANK_LINE \in valid_symbols /\ ~matching
    THEN IF ~check_block
         THEN Emit(AddMatched([s EXCEPT !.open_blocks = TightToLoose(s.open_blocks)], 1),
                   BLANK_LINE)
         ELSE ReturnTrue(s)
    ELSE s

(* ---- block quote (scanner.cc:379-397) --------------------------------- *)
BlockQuote(s, valid_symbols, check_block, matching) ==
    IF \/ (BLOCK_QUOTE_START \in valid_symbols /\ ~matching)
       \/ (BLOCK_CONTINUATION \in valid_symbols /\ matching
             /\ BlockAtMatched(s) = BLOCK_QUOTE)
    THEN IF ~check_block
         THEN LET s1 == [advance(s, FALSE) EXCEPT !.indentation = 0]
                  s2 == IF IsSpaceOrTab(Lookahead(s1))
                        THEN [advance(s1, TRUE) EXCEPT
                                  !.indentation = (advance_size(s1) - 1) % 256]
                        ELSE s1
              IN  IF matching
                  THEN Emit(AddMatched(s2, 1), BLOCK_CONTINUATION)
                  ELSE Emit(AddMatched([s2 EXCEPT
                                !.open_blocks = Append(s2.open_blocks, BLOCK_QUOTE)], 1),
                            BLOCK_QUOTE_START)
         ELSE ReturnTrue(s)
    ELSE s

(* ---- fences (scanner.cc:398-429 for '~', 430-461 for '`') ------------- *)
OpenFence(s, block, level) ==
    Emit(mark_end(AddMatched([s EXCEPT
             !.open_blocks = Append(s.open_blocks, block),
             !.code_span_delimiter_length = level % 256,
             !.indentation = 0], 2)),
         FENCED_CODE_BLOCK_START)

CloseFence(s) ==
    Emit(mark_end(AddMatched([s EXCEPT
             !.open_blocks = pop_back(s.open_blocks),
             !.indentation = 0], 1)),
         BLOCK_CLOSE)

FenceTilde(s, valid_symbols, check_block, matching) ==
    IF \/ (~matching /\ FENCED_CODE_BLOCK_START \in valid_symbols)
       \/ (matching /\ BLOCK_CLOSE \in valid_symbols
             /\ BlockAtMatched(s) = FENCED_CODE_BLOCK_TILDE)
    THEN LET s0 == IF ~check_block THEN mark_end(s) ELSE s
             s1 == advance_while(s0, {TILDE}, FALSE)
             level == s1.pos - s0.pos
         IN  IF matching
             THEN IF level >= s1.code_span_delimiter_length /\ IsLineEnd(Lookahead(s1))
                  THEN CloseFence(s1)
                  ELSE s1
             ELSE IF level >= 3
                  THEN IF ~check_block
                       THEN OpenFence(s1, FENCED_CODE_BLOCK_TILDE, level)
                       ELSE ReturnTrue(s1)
                  ELSE s1
    ELSE s

FenceBacktick(s, valid_symbols, check_block, matching) ==
    IF \/ (~matching /\ FENCED_CODE_BLOCK_START \in valid_symbols)
       \/ (matching /\ BLOCK_CLOSE \in valid_symbols
             /\ BlockAtMatched(s) = FENCED_CODE_BLOCK_BACKTICK)
    THEN LET s0 == IF ~check_block THEN mark_end(s) ELSE s
             s1 == advance_while(s0, {BACKTICK}, FALSE)
             level == s1.pos - s0.pos
         IN  IF matching
             THEN IF level >= s1.code_span_delimiter_length
                  THEN CloseFence(s1)
                  ELSE s1
             ELSE IF level >= 3 /\ IsLineEnd(Lookahead(s1))
                  THEN IF ~check_block
                       THEN OpenFence(s1, FENCED_CODE_BLOCK_BACKTICK, level)
                       ELSE ReturnTrue(s1)
                  ELSE s1
    ELSE s

(* ---- ATX heading (scanner.cc:462-481) --------------------------------- *)
(* while (lexer->lookahead == '#' && level <= 6) { advance; level++; }     *)
(* Lines 467-470 with the loop bound level <= 2.                           *)
RECURSIVE HashRunShort(_, _)
HashRunShort(s, level) ==
    IF Lookahead(s) = HASH /\ level <= 2
    THEN HashRunShort(advance(s, FALSE), level + 1)
    ELSE s

RECURSIVE HashRun(_, _)
HashRun(s, level) ==
    IF Lookahead(s) = HASH /\ level <= 6
    THEN HashRun(advance(s, FALSE), level + 1)
    ELSE s

AtxHeading(s, valid_symbols, check_block, matching) ==
    IF ATX_H1_MARKER \in valid_symbols /\ s.indentation <= 3 /\ ~matching
    THEN LET s0 == IF ~check_block THEN mark_end(s) ELSE s
             s1 == HashRun(s0, 0)
             level == s1.pos - s0.pos
         IN  IF level <= 6 /\ (IsSpaceOrTab(Lookahead(s1)) \/ IsLineEnd(Lookahead(s1)))
             THEN IF ~check_block
                  THEN Emit(mark_end(AddMatched([s1 EXCEPT !.indentation = 0], 1)),
                            ATX_H1_MARKER + (level - 1))
                  ELSE ReturnTrue(s1)
             ELSE s1
    ELSE s

(* ---- Setext H1 underline (scanner.cc:482-498) ------------------------- *)
SetextH1(s, valid_symbols, check_block, matching) ==
    IF ~check_block /\ SETEXT_H1_UNDERLINE \in valid_symbols /\ ~matching
    THEN LET s1 == advance_while(mark_end(s), {EQUALS}, FALSE)
             s2 == advance_while(s1, {SPACE, TAB}, TRUE)
         IN  IF IsLineEnd(Lookahead(s2))
             THEN Emit(mark_end(AddMatched(s2, 1)), SETEXT_H1_UNDERLINE)
             ELSE s2
    ELSE s

(* ---- list markers ----------------------------------------------------- *)
(* The push shared by '+', ordered, '-' and '*' markers                     *)
(* (scanner.cc:510-520, 561-571, 626-636, 699-709); extra_indentation is   *)
(* the column count of the spaces and tabs after the marker.               *)
PushListItem(s, extra_indentation) ==
    LET e == extra_indentation - 1
    IN  IF e <= 3
        THEN AddMatched([s EXCEPT
                 !.open_blocks = Append(s.open_blocks,
                                   ToChar((TIGHT_LIST_ITEM + e + s.indentation) % 256)),
                 !.indentation = 0], 1)
        ELSE AddMatched([s EXCEPT
                 !.open_blocks = Append(s.open_blocks,
                                   ToChar((TIGHT_LIST_ITEM + s.indentation) % 256)),
                 !.indentation = e % 256], 1)

(* scanner.cc:499-525 *)
ListMarkerPlus(s, valid_symbols, check_block, matching) ==
    IF ~matching /\ s.indentation <= 3 /\ LIST_MARKER_PLUS \in valid_symbols
    THEN LET s0 == IF ~check_block THEN mark_end(s) ELSE s
             s1 == advance(s0, FALSE)
             extra_indentation == columns_of_spaces(s1)
             s2 == advance_while(s1, {SPACE, TAB}, FALSE)
         IN  IF extra_indentation >= 1
             THEN IF check_block
                  THEN ReturnTrue(s2)
                  ELSE Emit(mark_end(PushListItem(s2, extra_indentation)),
                            LIST_MARKER_PLUS)
             ELSE s2
    ELSE s

(* scanner.cc:526-578 *)
ListMarkerOrdered(s, valid_symbols, check_block, matching) ==
    IF /\ ~matching
       /\ s.indentation <= 3
       /\ \/ LIST_MARKER_PLUS \in valid_symbols
          \/ LIST_MARKER_PARENTHETHIS \in valid_symbols
          \/ LIST_MARKER_DOT \in valid_symbols
    THEN LET s0 == IF ~check_block THEN mark_end(s) ELSE s
             s1 == advance_while(s0, DIGIT0..DIGIT9, FALSE)
             digits == s1.pos - s0.pos
         IN  IF digits >= 1 /\ digits <= 9 /\ Lookahead(s1) \in {DOT, RPAREN}
             THEN LET symbol == IF Lookahead(s1) = DOT
                                THEN LIST_MARKER_DOT
                                ELSE LIST_MARKER_PARENTHETHIS
                      s2 == [advance(s1, FALSE) EXCEPT !.result_symbol = symbol]
                      extra_indentation == columns_of_spaces(s2)
                      s3 == advance_while(s2, {SPACE, TAB}, FALSE)
                  IN  IF extra_indentation >= 1
                      THEN IF check_block
                           THEN ReturnTrue(s3)
                           ELSE Emit(mark_end(PushListItem(s3, extra_indentation)),
                                     symbol)
                      ELSE s3
             ELSE s1
    ELSE s

(* The scanning loop of case '-' (scanner.cc:587-605) and, with            *)
(* underline tracking unused, of case '*' (661-677).  l holds the locals.  *)
RECURSIVE MarkerLoop(_, _, _, _)
MarkerLoop(s, c, check_block, l) ==
    IF Lookahead(s) = c
    THEN MarkerLoop(
             advance(IF l.count = 1 /\ l.extra_indentation >= 1 /\ ~check_block
                     THEN mark_end(s) ELSE s, FALSE),
             c, check_block,
             [l EXCEPT !.count = l.count + 1,
                       !.minus_after_whitespace = l.whitespace_after_minus])
    ELSE IF IsSpaceOrTab(Lookahead(s))
    THEN MarkerLoop(
             advance(s, FALSE), c, check_block,
             [l EXCEPT !.extra_indentation =
                           IF l.count = 1 THEN l.extra_indentation + advance_size(s)
                           ELSE l.extra_indentation,
                       !.whitespace_after_minus = TRUE])
    ELSE [s |-> s, l |-> l]

(* Line 582 initialising whitespace_after_minus to true.                   *)
MarkerLocalsSeenWhitespace ==
    [whitespace_after_minus |-> TRUE, minus_after_whitespace |-> FALSE,
     count |-> 0, extra_indentation |-> 0]

MarkerLocals ==
    [whitespace_after_minus |-> FALSE, minus_after_whitespace |-> FALSE,
     count |-> 0, extra_indentation |-> 0]

(* scanner.cc:579-654 *)
Minus(s, valid_symbols, check_block, matching) ==
    IF /\ ~matching
       /\ s.indentation <= 3
       /\ \/ LIST_MARKER_MINUS \in valid_symbols
          \/ SETEXT_H2_UNDERLINE \in valid_symbols
          \/ SETEXT_H2_UNDERLINE_OR_THEMATIC_BREAK \in valid_symbols
          \/ THEMATIC_BREAK \in valid_symbols
    THEN LET r == MarkerLoop(IF ~check_block THEN mark_end(s) ELSE s,
                             MINUS, check_block, MarkerLocals)
             s1 == r.s
             minus_count == r.l.count
             line_end == IsLineEnd(Lookahead(s1))
             extra_indentation == IF minus_count = 1 /\ line_end
                                  THEN 1 ELSE r.l.extra_indentation
             thematic_break == minus_count >= 3 /\ line_end
             underline == minus_count >= 1 /\ ~r.l.minus_after_whitespace /\ line_end
             list_marker_minus == minus_count >= 1 /\ extra_indentation >= 1
         IN  IF check_block
             THEN IF thematic_break \/ underline \/ list_marker_minus
                  THEN ReturnTrue(s1)
                  ELSE s1
             ELSE IF THEMATIC_BREAK \in valid_symbols /\ thematic_break /\ ~underline
             THEN Emit(AddMatched([mark_end(s1) EXCEPT !.indentation = 0], 1),
                       THEMATIC_BREAK)
             ELSE IF LIST_MARKER_MINUS \in valid_symbols /\ list_marker_minus
             THEN Emit(PushListItem(IF minus_count = 1 THEN mark_end(s1) ELSE s1,
                                    extra_indentation),
                       LIST_MARKER_MINUS)
             ELSE IF /\ SETEXT_H2_UNDERLINE_OR_THEMATIC_BREAK \in valid_symbols
                     /\ thematic_break /\ underline
             THEN Emit(AddMatched([mark_end(s1) EXCEPT !.indentation = 0], 1),
                       SETEXT_H2_UNDERLINE_OR_THEMATIC_BREAK)
             ELSE IF SETEXT_H2_UNDERLINE \in valid_symbols /\ underline
             THEN Emit(AddMatched([mark_end(s1) EXCEPT !.indentation = 0], 1),
                       SETEXT_H2_UNDERLINE)
             ELSE s1
    ELSE s

(* scanner.cc:655-716 *)
Star(s, valid_symbols, check_block, matching) ==
    IF /\ ~matching
       /\ s.indentation <= 3
       /\ (LIST_MARKER_STAR \in valid_symbols \/ THEMATIC_BREAK \in valid_symbols)
    THEN LET r == MarkerLoop(IF ~check_block THEN mark_end(s) ELSE s,
                             STAR, check_block, MarkerLocals)
             s1 == r.s
             star_count == r.l.count
             line_end == IsLineEnd(Lookahead(s1))
             extra_indentation == IF star_count = 1 /\ line_end
                                  THEN 1 ELSE r.l.extra_indentation
             thematic_break == star_count >= 3 /\ line_end
             list_marker_star == star_count >= 1 /\ extra_indentation >= 1
         IN  IF check_block
             THEN IF thematic_break \/ list_marker_star
                  THEN ReturnTrue(s1)
                  ELSE s1
             ELSE IF THEMATIC_BREAK \in valid_symbols /\ thematic_break
             THEN Emit(AddMatched([mark_end(s1) EXCEPT !.indentation = 0], 1),
                       THEMATIC_BREAK)
             ELSE IF LIST_MARKER_STAR \in valid_symbols /\ list_marker_star
             THEN LET s2 == PushListItem(IF star_count = 1 THEN mark_end(s1) ELSE s1,
                                         extra_indentation)
                  IN  Emit(IF star_count = 1 THEN mark_end(s2) ELSE s2,
                           LIST_MARKER_STAR)
             ELSE s1
    ELSE s

(* scanner.cc:717-742; this loop never marks the end of the token.        *)
Underscore(s, valid_symbols, check_block, matching) ==
    IF ~matching /\ s.indentation <= 3 /\ THEMATIC_BREAK \in valid_symbols
    THEN LET r == MarkerLoop(IF ~check_block THEN mark_end(s) ELSE s,
                             UNDERSCORE, TRUE, MarkerLocals)
             s1 == r.s
             underscore_count == r.l.count
             line_end == IsLineEnd(Lookahead(s1))
         IN  IF underscore_count >= 3 /\ line_end
             THEN IF ~check_block
                  THEN Emit(AddMatched([mark_end(s1) EXCEPT !.indentation = 0], 1),
                            THEMATIC_BREAK)
                  ELSE ReturnTrue(s1)
             ELSE s1
    ELSE s

(* ---- switch (lexer->lookahead) of the block phase (scanner.cc:363-743) - *)
BlockSwitch(s, valid_symbols, check_block, matching) ==
    CASE IsLineEnd(Lookahead(s)) -> BlankLine(s, valid_symbols, check_block, matching)
      [] Lookahead(s) = GT -> BlockQuote(s, valid_symbols, check_block, matching)
      [] Lookahead(s) = TILDE -> FenceTilde(s, valid_symbols, check_block, matching)
      [] Lookahead(s) = BACKTICK -> FenceBacktick(s, valid_symbols, check_block, matching)
      [] Lookahead(s) = HASH -> AtxHeading(s, valid_symbols, check_block, matching)
      [] Lookahead(s) = EQUALS -> SetextH1(s, valid_symbols, check_block, matching)
      [] Lookahead(s) = PLUS -> ListMarkerPlus(s, valid_symbols, check_block, matching)
      [] Lookahead(s) \in DIGIT0..DIGIT9 ->
             ListMarkerOrdered(s, valid_symbols, check_block, matching)
      [] Lookahead(s) = MINUS -> Minus(s, valid_symbols, check_block, matching)
      [] Lookahead(s) = STAR -> Star(s, valid_symbols, check_block, matching)
      [] Lookahead(s) = UNDERSCORE -> Underscore(s, valid_symbols, check_block, matching)
      [] OTHER -> s

(* ---- scan from its first line to the end of the switch (168-743) ------ *)
(* The result has done = TRUE when scan has returned, FALSE when control   *)
(* reaches line 744.                                                       *)
AfterListItem(s2, valid_symbols, check_block, matching) ==
    IF s2.done THEN s2 ELSE BlockSwitch(s2, valid_symbols, check_block, matching)

AfterIndentedCode(s1, valid_symbols, check_block, matching) ==
    IF s1.done
    THEN s1
    ELSE AfterListItem(ListItemContinuation(s1, valid_symbols, matching),
                       valid_symbols, check_block, matching)

ScanCore(s, valid_symbols, check_block) ==
    IF eof(s)
    THEN ScanEof(s)
    ELSE IF s.matched > Len(s.open_blocks)
    THEN ScanInline(s, valid_symbols)
    ELSE IF INDENTATION \in valid_symbols /\ IsSpaceOrTab(Lookahead(s))
    THEN IndentationPreamble(s)
    ELSE AfterIndentedCode(
             IndentedCode(s, valid_symbols, check_block, Matching(s, check_block)),
             valid_symbols, check_block, Matching(s, check_block))

(* scan(lexer, valid_symbols, true): the probe of line 753.  Past the      *)
(* switch a probe matches nothing and returns false (744, 750, 770, 775).  *)
ProbeReturn(c) == IF c.done THEN c ELSE ReturnFalse(c)

Probe(s, valid_symbols) ==
    ProbeReturn(ScanCore([s EXCEPT !.done = FALSE], valid_symbols, TRUE))

(* ---- fenced code continuation (scanner.cc:744-749) -------------------- *)
(* Line 746 adding one to matched instead of two.                          *)
FenceContinuationByOne(s) ==
    Emit(AddMatched([s EXCEPT !.indentation = 0], 1), BLOCK_CONTINUATION)

FenceContinuation(s) ==
    Emit(AddMatched([s EXCEPT !.indentation = 0], 2), BLOCK_CONTINUATION)

(* ---- lazy continuation or close (scanner.cc:750-769) ------------------ *)
(* Reading or popping the top of an empty stack is undefined: ub.  It      *)
(* takes a probe that pops the only block at the end of input, which no    *)
(* mask of Masks allows.                                                   *)
(* Lines 762-768 with a matched++ after the pop_back.                      *)
CloseTopAdvances(s) ==
    IF Len(s.open_blocks) = 0
    THEN [ReturnTrue(s) EXCEPT !.ub = TRUE]
    ELSE Emit(AddMatched([s EXCEPT !.open_blocks = pop_back(s.open_blocks)], 1),
              CloseSymbol(s.open_blocks[Len(s.open_blocks)]))

CloseTop(s) ==
    IF Len(s.open_blocks) = 0
    THEN [ReturnTrue(s) EXCEPT !.ub = TRUE]
    ELSE Emit([s EXCEPT !.open_blocks = pop_back(s.open_blocks)],
              CloseSymbol(s.open_blocks[Len(s.open_blocks)]))

LazyContinuation(s) ==
    Emit([s EXCEPT !.indentation = 0,
                   !.matched = (Len(s.open_blocks) + 1) % 256],
         LAZY_CONTINUATION)

(* scanner.cc:753-768, p the scanner and lexer as the probe left them      *)
AfterProbe(p) ==
    IF ~p.ret
    THEN LazyContinuation([p EXCEPT !.done = FALSE])
    ELSE CloseTop([p EXCEPT !.done = FALSE, !.ret = FALSE])

LazyOrClose(s, valid_symbols) ==
    IF LAZY_CONTINUATION \in valid_symbols
    THEN AfterProbe(Probe(mark_end(s), valid_symbols))
    ELSE CloseTop(mark_end(s))

(* Line 772 adding two to matched.                                         *)
MatchingDoneTwice(s) == Emit(AddMatched(s, 2), MATCHING_DONE)

(* ---- MATCHING_DONE (scanner.cc:770-774) ------------------------------- *)
MatchingDone(s) == Emit(AddMatched(s, 1), MATCHING_DONE)

(* ---- scanner.cc:744-775, c the execution as the switch left it -------- *)
ScanTail(c, valid_symbols) ==
    IF c.done
    THEN c
    ELSE IF /\ Matching(c, FALSE)
            /\ BLOCK_CONTINUATION \in valid_symbols
            /\ BlockAtMatched(c) \in {FENCED_CODE_BLOCK_TILDE,
                                      FENCED_CODE_BLOCK_BACKTICK}
    THEN FenceContinuation(c)
    ELSE IF Matching(c, FALSE)
    THEN LazyOrClose(c, valid_symbols)
    ELSE MatchingDone(c)

(* ---- Scanner::scan with check_block = false (scanner.cc:168-776) ------ *)
scan(s, valid_symbols) == ScanTail(ScanCore(s, valid_symbols, FALSE), valid_symbols)

(* ======================================================================= *)
(* The state machine: one scanner, the host's lexer, and what the host     *)
(* observed of the latest call.                                            *)
(* ======================================================================= *)
VARIABLES
    open_blocks, matched, indentation, column, code_span_delimiter_length,
    num_emphasis_delimiters, num_emphasis_delimiters_left,
    emphasis_delimiters_is_open,
    input,       \* the bytes from the lexer's position to the end of input
    prev,        \* the byte before the lexer's position (NUL at the start)
    call,        \* the latest call and its result
    eof_pops,    \* blocks popped by calls made at the end of input
    blank_seen,  \* stack positions of list items that were Tight at a BLANK_LINE
    run,         \* the emphasis delimiter run being emitted
    buffer,      \* the host's serialized image
    saved        \* the scanner the image was taken from

scanner_vars ==
    <<open_blocks, matched, indentation, column, code_span_delimiter_length,
      num_emphasis_delimiters, num_emphasis_delimiters_left,
      emphasis_delimiters_is_open>>

vars ==
    <<open_blocks, matched, indentation, column, code_span_delimiter_length,
      num_emphasis_delimiters, num_emphasis_delimiters_left,
      emphasis_delimiters_is_open, input, prev, call, eof_pops, blank_seen,
      run, buffer, saved>>

Current ==
    ScannerOf(open_blocks, matched, indentation, column,
              code_span_delimiter_length, num_emphasis_delimiters,
              num_emphasis_delimiters_left, emphasis_delimiters_is_open)

SetScanner(sc) ==
    /\ open_blocks' = sc.open_blocks
    /\ matched' = sc.matched
    /\ indentation' = sc.indentation
    /\ column' = sc.column
    /\ code_span_delimiter_length' = sc.code_span_delimiter_length
    /\ num_emphasis_delimiters' = sc.num_emphasis_delimiters
    /\ num_emphasis_delimiters_left' = sc.num_emphasis_delimiters_left
    /\ emphasis_delimiters_is_open' = sc.emphasis_delimiters_is_open

(* ---- bounds of the model ---------------------------------------------- *)
MaxLen == 4

(* The bytes of the inputs, in families that each exercise one part of     *)
(* the scanner.                                                            *)
Alphabets ==
    { {GT, MINUS, SPACE, LF, LETTER_A},
      {STAR, UNDERSCORE, LETTER_A, SPACE, BANG},
      {CR, LF, TILDE, BACKTICK, LETTER_A},
      {HASH, TAB, PLUS, LF, EQUALS},
      {DIGIT1, DOT, RPAREN, SPACE, LF} }

Strings(alphabet, n) == UNION {[1..k -> alphabet] : k \in 0..n}

Inputs == UNION {Strings(alphabet, MaxLen) : alphabet \in Alphabets}

(* Inputs met with UINT8_MAX block quotes already open.                    *)
NestedInputs == {<<>>, <<GT>>, <<LETTER_A>>}

(* ---- the valid_symbols masks the host passes -------------------------- *)
BlockSymbols ==
    {INDENTATION, MATCHING_DONE, BLOCK_CLOSE, BLOCK_CLOSE_LOOSE, BLOCK_CONTINUATION,
     BLOCK_QUOTE_START, INDENTED_CHUNK_START, ATX_H1_MARKER, ATX_H2_MARKER,
     ATX_H3_MARKER, ATX_H4_MARKER, ATX_H5_MARKER, ATX_H6_MARKER, THEMATIC_BREAK,
     LIST_MARKER_MINUS, LIST_MARKER_PLUS, LIST_MARKER_STAR,
     LIST_MARKER_PARENTHETHIS, LIST_MARKER_DOT, FENCED_CODE_BLOCK_START,
     BLANK_LINE}

ParagraphSymbols ==
    (BlockSymbols \ {INDENTED_CHUNK_START})
        \cup {LAZY_CONTINUATION, SETEXT_H1_UNDERLINE, SETEXT_H2_UNDERLINE,
              SETEXT_H2_UNDERLINE_OR_THEMATIC_BREAK}

InlineSymbols == {LINE_ENDING, VIRTUAL_SPACE, CODE_SPAN_START, CODE_SPAN_CLOSE}

EmphasisOpen == {EMPHASIS_OPEN_STAR, EMPHASIS_OPEN_UNDERSCORE}

EmphasisClose == {EMPHASIS_CLOSE_STAR, EMPHASIS_CLOSE_UNDERSCORE}

Masks ==
    { TokenType,
      BlockSymbols,
      ParagraphSymbols,
      InlineSymbols \cup EmphasisOpen,
      InlineSymbols \cup EmphasisOpen \cup {LAST_TOKEN_WHITESPACE},
      InlineSymbols \cup EmphasisOpen \cup EmphasisClose,
      InlineSymbols \cup EmphasisOpen \cup EmphasisClose \cup {LAST_TOKEN_PUNCTUATION},
      InlineSymbols \cup EmphasisClose }

(* ---- create (scanner.cc:112-116, 780-782) ----------------------------- *)
NoCall ==
    [kind |-> "create", ret |-> FALSE, result_symbol |-> -1, symbol_valid |-> FALSE,
     at_eof |-> FALSE, popped_after_blank |-> FALSE]

NoRun ==
    [char |-> NUL, open |-> FALSE, left |-> 0, same |-> TRUE, one_each |-> TRUE,
     declined |-> FALSE]

Fresh == deserialize(<<>>)

(* The scanner after UINT8_MAX '>' openers on the first line, each scanned *)
(* by BlockQuote with BLOCK_QUOTE_START valid.                             *)
Nested(depth) ==
    ScannerOf([i \in 1..depth |-> BLOCK_QUOTE], depth % 256, 0, depth % 256, 0, 0, 0, 0)

InitHistory ==
    /\ call = NoCall
    /\ eof_pops = 0
    /\ blank_seen = {}
    /\ run = NoRun
    /\ buffer = <<>>
    /\ saved = Fresh

InitScanner(sc) ==
    /\ open_blocks = sc.open_blocks
    /\ matched = sc.matched
    /\ indentation = sc.indentation
    /\ column = sc.column
    /\ code_span_delimiter_length = sc.code_span_delimiter_length
    /\ num_emphasis_delimiters = sc.num_emphasis_delimiters
    /\ num_emphasis_delimiters_left = sc.num_emphasis_delimiters_left
    /\ emphasis_delimiters_is_open = sc.emphasis_delimiters_is_open

Init ==
    /\ InitScanner(Fresh)
    /\ input \in Inputs
    /\ prev = NUL
    /\ InitHistory

(* ---- scan (scanner.cc:784-791) ---------------------------------------- *)
EmphasisSymbols == EmphasisOpen \cup EmphasisClose

RECURSIVE RunLength(_, _)
RunLength(bytes, c) ==
    IF bytes # <<>> /\ Head(bytes) = c THEN 1 + RunLength(Tail(bytes), c) ELSE 0

SymbolsOf(c) ==
    IF c = STAR
    THEN {EMPHASIS_OPEN_STAR, EMPHASIS_CLOSE_STAR}
    ELSE {EMPHASIS_OPEN_UNDERSCORE, EMPHASIS_CLOSE_UNDERSCORE}

(* The run record after a call that returned ret with symbol sym and       *)
(* consumed that many bytes.                                               *)
RunAfter(valid_symbols, ret, sym, consumed) ==
    LET inside == run.char # NUL /\ run.left > 0
    IN  IF ret /\ sym \in EmphasisSymbols
        THEN IF inside
             THEN [run EXCEPT !.left = IF consumed > run.left THEN 0
                                       ELSE run.left - consumed,
                              !.same = run.same /\ ((sym \in EmphasisOpen) = run.open),
                              !.one_each = run.one_each /\ consumed = 1]
             ELSE IF prev # Head(input)
             THEN [char |-> Head(input), open |-> sym \in EmphasisOpen,
                   left |-> IF consumed > RunLength(input, Head(input)) THEN 0
                            ELSE RunLength(input, Head(input)) - consumed,
                   same |-> TRUE, one_each |-> consumed = 1, declined |-> FALSE]
             ELSE NoRun
        ELSE IF inside /\ ~ret /\ SymbolsOf(run.char) \cap valid_symbols # {}
        THEN [run EXCEPT !.declined = TRUE]
        ELSE IF inside /\ consumed > 0
        THEN NoRun
        ELSE run

TightPositions(blocks) ==
    {i \in 1..Len(blocks) :
        blocks[i] >= TIGHT_LIST_ITEM /\ blocks[i] <= TIGHT_LIST_ITEM_MAX_INDENTATION}

(* The bytes the host takes for the token: up to mark_end if it was        *)
(* called, else up to the lexer's position; none when scan returns false.  *)
Consumed(r) ==
    IF r.ret THEN (IF r.token_end >= 0 THEN r.token_end ELSE r.pos) ELSE 0

(* The host's view of a call that produced the execution r.                *)
Returned(r, valid_symbols, consumed, sym) ==
    /\ ~r.ub
    /\ SetScanner(ScannerPart(r))
    /\ input' = SubSeq(input, consumed + 1, Len(input))
    /\ prev' = IF consumed > 0 THEN input[consumed] ELSE prev
    /\ call' = [kind |-> "scan", ret |-> r.ret, result_symbol |-> sym,
                symbol_valid |-> r.ret /\ sym \in valid_symbols,
                at_eof |-> input = <<>>,
                popped_after_blank |->
                    ((Len(r.open_blocks) + 1)..Len(open_blocks)) \cap blank_seen # {}]
    /\ eof_pops' = IF input = <<>> /\ Len(r.open_blocks) < Len(open_blocks)
                   THEN eof_pops + (Len(open_blocks) - Len(r.open_blocks))
                   ELSE eof_pops
    /\ blank_seen' = (IF sym = BLANK_LINE
                      THEN blank_seen \cup TightPositions(open_blocks)
                      ELSE blank_seen) \cap (1..Len(r.open_blocks))
    /\ run' = RunAfter(valid_symbols, r.ret, sym, consumed)
    /\ UNCHANGED <<buffer, saved>>

Return(r, valid_symbols) ==
    Returned(r, valid_symbols, Consumed(r), IF r.ret THEN r.result_symbol ELSE -1)

Scan(valid_symbols) == Return(scan(Exec(Current, input), valid_symbols), valid_symbols)

(* ---- the host's own lexer takes a byte of text ------------------------ *)
Text ==
    /\ input # <<>>
    /\ input' = Tail(input)
    /\ prev' = Head(input)
    /\ call' = [NoCall EXCEPT !.kind = "text"]
    /\ run' = IF run.char # NUL /\ run.left > 0 THEN NoRun ELSE run
    /\ UNCHANGED <<scanner_vars, eof_pops, blank_seen, buffer, saved>>

Next ==
    \/ \E valid_symbols \in Masks : Scan(valid_symbols)
    \/ Text

Spec == Init /\ [][Next]_vars

(* The same scanner met after UINT8_MAX nested block quotes were opened.   *)
InitNested ==
    /\ InitScanner(Nested(UINT8_MAX))
    /\ input \in NestedInputs
    /\ prev = GT
    /\ InitHistory

SpecNested == InitNested /\ [][Next]_vars

(* ======================================================================= *)
(* serialize and deserialize as the host calls them (scanner.cc:793-806),  *)
(* on scanner states drawn from bounded sets: stacks around the length the *)
(* image can hold, scalars on both sides of the sign bit of char.          *)
(* ======================================================================= *)
MaxOverflow == 2

MaxForeign == 2

(* The number of block bytes an image holds: UINT8_MAX less the header.    *)
SerializedBlocksMax == UINT8_MAX - 7

StackLengths ==
    (0..2) \cup ((SerializedBlocksMax - 1)..(SerializedBlocksMax + MaxOverflow))

(* Block quotes and list items of one looseness, as nesting produces them. *)
StackOf(n, base) ==
    [i \in 1..n |-> IF i % 3 = 0 THEN BLOCK_QUOTE ELSE base + (i % 7)]

ScalarValues == {0, 3, 128, UINT8_MAX}

EmphasisCounts == {<<0, 0>>, <<2, 1>>, <<UINT8_MAX, 128>>}

SerStates ==
    { ScannerOf(StackOf(n, base), m, ind, col, csdl, e[1], e[2], edio) :
        n \in StackLengths, base \in {TIGHT_LIST_ITEM, LOOSE_LIST_ITEM},
        m \in {0, UINT8_MAX}, ind \in ScalarValues, col \in ScalarValues,
        csdl \in ScalarValues, e \in EmphasisCounts, edio \in {0, 1} }

(* Bytes a buffer not written by serialize may hold in the block part.     *)
ForeignTags ==
    {BLOCK_QUOTE, FENCED_CODE_BLOCK_BACKTICK, FENCED_CODE_BLOCK_BACKTICK + 1,
     127, -128, -1}

ForeignImages ==
    { <<0, 0, 0, 0, 0, 0, 0>> \o tags :
        tags \in UNION {[1..k -> ForeignTags] : k \in 1..MaxForeign} }

InitSer ==
    /\ \E sc \in SerStates : InitScanner(sc)
    /\ input = <<>>
    /\ prev = NUL
    /\ InitHistory

(* tree_sitter_markdown_external_scanner_serialize (scanner.cc:793-798)    *)
Serialize ==
    /\ buffer' = serialize(Current)
    /\ saved' = Current
    /\ call' = [NoCall EXCEPT !.kind = "serialize"]
    /\ UNCHANGED <<scanner_vars, input, prev, eof_pops, blank_seen, run>>

(* tree_sitter_markdown_external_scanner_deserialize (scanner.cc:800-806), *)
(* given the image the host holds.                                         *)
Deserialize ==
    /\ call.kind \in {"serialize", "deserialize"}
    /\ SetScanner(deserialize(buffer))
    /\ call' = [NoCall EXCEPT !.kind = "deserialize"]
    /\ UNCHANGED <<input, prev, eof_pops, blank_seen, run, buffer, saved>>

(* The same entry point given a buffer that serialize did not write.       *)
DeserializeForeign ==
    \E image \in ForeignImages :
        /\ SetScanner(deserialize(image))
        /\ buffer' = image
        /\ saved' = Fresh
        /\ call' = [NoCall EXCEPT !.kind = "foreign"]
        /\ UNCHANGED <<input, prev, eof_pops, blank_seen, run>>

NextSer == Serialize \/ Deserialize \/ DeserializeForeign

SpecSer == InitSer /\ [][NextSer]_vars

(* ======================================================================= *)
(* Properties                                                              *)
(* ======================================================================= *)
IsTight(block) == block >= TIGHT_LIST_ITEM /\ block <= TIGHT_LIST_ITEM_MAX_INDENTATION

IsLoose(block) == block >= LOOSE_LIST_ITEM /\ block <= LOOSE_LIST_ITEM_MAX_INDENTATION

(* C1, as stated: in every reachable state, calls at the end of input      *)
(* included, matched <= open_blocks.size() + 1.                            *)
C1_MatchedWithinStack == matched <= Len(open_blocks) + 1

(* C1, amended: matched exceeds open_blocks.size() + 1 by at most the      *)
(* number of blocks popped by calls made at the end of input, which pop    *)
(* without touching matched; before any such pop the stated bound holds.   *)
C1_MatchedWithinStackBeforeEof == matched <= Len(open_blocks) + 1 + eof_pops

(* A call at the end of input has popped a block and matched is at the     *)
(* amended bound, above the stated one.                                    *)
C1_Witness == eof_pops > 0 /\ matched = Len(open_blocks) + 1 + eof_pops

(* C2: whenever scan returns true, the result symbol is one of the         *)
(* valid_symbols of that call.                                             *)
C2_TokenInMask == (call.kind = "scan" /\ call.ret) => call.symbol_valid

(* C3: serialize writes at most UINT8_MAX bytes, the seven scalars in      *)
(* declaration order and then the blocks; deserialize of that image        *)
(* restores the scalars exactly and the stack up to its first              *)
(* SerializedBlocksMax entries.                                            *)
C3_SerializeRoundTrip ==
    /\ call.kind = "serialize" =>
          /\ Len(buffer) <= UINT8_MAX
          /\ Len(buffer) = 7 + Min(Len(saved.open_blocks), SerializedBlocksMax)
          /\ ToUint8(buffer[1]) = saved.matched
          /\ ToUint8(buffer[2]) = saved.indentation
          /\ ToUint8(buffer[3]) = saved.column
          /\ ToUint8(buffer[4]) = saved.code_span_delimiter_length
          /\ ToUint8(buffer[5]) = saved.num_emphasis_delimiters
          /\ ToUint8(buffer[6]) = saved.num_emphasis_delimiters_left
          /\ ToUint8(buffer[7]) = saved.emphasis_delimiters_is_open
          /\ \A i \in 8..Len(buffer) : buffer[i] = saved.open_blocks[i - 7]
    /\ call.kind = "deserialize" =>
          /\ matched = saved.matched
          /\ indentation = saved.indentation
          /\ column = saved.column
          /\ code_span_delimiter_length = saved.code_span_delimiter_length
          /\ num_emphasis_delimiters = saved.num_emphasis_delimiters
          /\ num_emphasis_delimiters_left = saved.num_emphasis_delimiters_left
          /\ emphasis_delimiters_is_open = saved.emphasis_delimiters_is_open
          /\ open_blocks = SubSeq(saved.open_blocks, 1,
                                  Min(Len(saved.open_blocks), SerializedBlocksMax))

(* An image of a stack too long for it was deserialized: the stack came    *)
(* back truncated and the scalars above the sign bit came back unchanged.  *)
C3_Witness ==
    /\ call.kind = "deserialize"
    /\ Len(saved.open_blocks) > SerializedBlocksMax
    /\ Len(open_blocks) = SerializedBlocksMax
    /\ matched = UINT8_MAX
    /\ column = 128

(* C4: from a reachable state with at most SerializedBlocksMax open        *)
(* blocks, a scanner loaded by deserialize(serialize(state)) returns the   *)
(* same result and reaches the same state as the scanner itself, for every *)
(* mask, on the input ahead.                                               *)
C4_ReentryTransparent ==
    Len(open_blocks) <= SerializedBlocksMax =>
        \A valid_symbols \in Masks :
            scan(Exec(deserialize(serialize(Current)), input), valid_symbols)
                = scan(Exec(Current, input), valid_symbols)

(* A state inside an emphasis run with an open block, from which the       *)
(* reloaded scanner emits a token.                                         *)
C4_Witness ==
    /\ Len(open_blocks) > 0
    /\ num_emphasis_delimiters_left > 0
    /\ emphasis_delimiters_is_open = 1
    /\ \E valid_symbols \in Masks :
           scan(Exec(deserialize(serialize(Current)), input), valid_symbols).ret

(* C5: right after a scan call that emits LINE_ENDING, matched,            *)
(* indentation and column are all zero.                                    *)
C5_LineEndingResets ==
    (call.kind = "scan" /\ call.ret /\ call.result_symbol = LINE_ENDING) =>
        (matched = 0 /\ indentation = 0 /\ column = 0)

(* LINE_ENDING was emitted for a line feed with a block open.              *)
C5_Witness ==
    /\ call.kind = "scan" /\ call.ret /\ call.result_symbol = LINE_ENDING
    /\ prev = LF
    /\ Len(open_blocks) > 0

(* C6: every emphasis token emitted on one run of identical delimiters     *)
(* has the polarity of the first token of the run, whatever the masks of   *)
(* the calls.                                                              *)
C6_RunKeepsPolarity == run.same

(* C7: the token that pops a list item that was Tight on the stack when a  *)
(* BLANK_LINE was emitted is BLOCK_CLOSE_LOOSE.                            *)
C7_BlankLineClosesLoose ==
    call.popped_after_blank => (call.ret /\ call.result_symbol = BLOCK_CLOSE_LOOSE)

(* Such a list item was popped by a match failure before the end of input. *)
C7_Witness == call.popped_after_blank /\ ~call.at_eof

(* C8: a stack entry that is a Loose list item is not a Tight list item    *)
(* after any step that leaves it on the stack.                             *)
C8_LoosenessMonotone ==
    [][\A i \in 1..Min(Len(open_blocks), Len(open_blocks')) :
           IsLoose(open_blocks[i]) => ~IsTight(open_blocks'[i])]_vars

(* A Loose list item stayed on the stack through a later call that         *)
(* continued it.                                                           *)
C8_Witness ==
    /\ call.kind = "scan" /\ call.ret /\ call.result_symbol = BLOCK_CONTINUATION
    /\ \E i \in 1..Len(open_blocks) : IsLoose(open_blocks[i])

(* C9: a scan call that does not emit LINE_ENDING never decreases matched. *)
C9_MatchedNonDecreasing ==
    [][(call'.kind = "scan" /\ ~(call'.ret /\ call'.result_symbol = LINE_ENDING))
           => matched' >= matched]_vars

(* C10: after deserialize of a buffer whose block bytes are outside the    *)
(* Block kinds, the stack entries for those bytes are zero.                *)
C10_OutOfRangeStoredAsZero ==
    call.kind = "foreign" =>
        \A i \in 8..Len(buffer) :
            buffer[i] \notin BLOCK_QUOTE..FENCED_CODE_BLOCK_BACKTICK
                => open_blocks[i - 7] = BLOCK_QUOTE

(* ======================================================================= *)
(* A host that scans whole documents: at a line start and at the end of    *)
(* input it asks for block tokens, inside a line for inline tokens, and it *)
(* lexes a byte of text itself only inside a line and never a line ending. *)
(* ======================================================================= *)
LETTER_B == 98

MaxPad == 3

Spaces(n) == [i \in 1..n |-> SPACE]

(* "- a" eol eol "- b" eol, with pad spaces after each marker.             *)
ListDocument(pad, eol) ==
    <<MINUS>> \o Spaces(pad) \o <<LETTER_A>> \o eol \o eol
        \o <<MINUS>> \o Spaces(pad) \o <<LETTER_B>> \o eol

(* "- a\n\n- b\n" and its variants in marker padding and line ending.      *)
ListDocuments ==
    { ListDocument(pad, eol) : pad \in 1..MaxPad, eol \in {<<LF>>, <<CR, LF>>} }

InLinePrefix == input = <<>> \/ matched <= Len(open_blocks)

LineStartMasks == {BlockSymbols, ParagraphSymbols}

InlineMasks == Masks \ {TokenType, BlockSymbols, ParagraphSymbols}

DocScan ==
    \E valid_symbols \in (IF InLinePrefix THEN LineStartMasks ELSE InlineMasks) :
        Scan(valid_symbols)

DocText ==
    /\ ~InLinePrefix
    /\ ~IsLineEnd(Head(input))
    /\ Text

InitDoc ==
    /\ InitScanner(Fresh)
    /\ input \in ListDocuments
    /\ prev = NUL
    /\ InitHistory

NextDoc == DocScan \/ DocText

SpecDoc == InitDoc /\ [][NextDoc]_vars

(* ---- second lines met with containers already opened by a first line -- *)
MaxTail == 3

(* ">>\n", "> - a\n" and "- - a\n" open two nested containers each;       *)
(* "   -    a\n" opens the list item with the largest content indent.      *)
FirstLines ==
    { <<GT, GT, LF>>,
      <<GT, SPACE, MINUS, SPACE, LETTER_A, LF>>,
      <<MINUS, SPACE, MINUS, SPACE, LETTER_A, LF>>,
      Spaces(3) \o <<MINUS>> \o Spaces(4) \o <<LETTER_A, LF>> }

TailAlphabet == {GT, MINUS, SPACE, LF, LETTER_A}

LinesInputs ==
    { first \o rest : first \in FirstLines, rest \in Strings(TailAlphabet, MaxTail) }

InitLines ==
    /\ InitScanner(Fresh)
    /\ input \in LinesInputs
    /\ prev = NUL
    /\ InitHistory

SpecLines == InitLines /\ [][Next]_vars

(* C11: on "- a\n\n- b\n" no close token is emitted before the end of      *)
(* input, and the close emitted there is BLOCK_CLOSE_LOOSE.                *)
C11_ListClosedOnceLoose ==
    (call.kind = "scan" /\ call.ret
        /\ call.result_symbol \in {BLOCK_CLOSE, BLOCK_CLOSE_LOOSE})
    => (call.at_eof /\ call.result_symbol = BLOCK_CLOSE_LOOSE)

(* The second half of C11 alone: the close emitted at the end of input is  *)
(* BLOCK_CLOSE_LOOSE.                                                      *)
C11_EofCloseLoose ==
    (call.kind = "scan" /\ call.ret /\ call.at_eof)
    => call.result_symbol = BLOCK_CLOSE_LOOSE

StartsWith(bytes, prefix) ==
    /\ Len(bytes) >= Len(prefix)
    /\ SubSeq(bytes, 1, Len(prefix)) = prefix

OpensBacktickFence(r) ==
    /\ r.ret
    /\ r.result_symbol = FENCED_CODE_BLOCK_START
    /\ r.open_blocks = <<FENCED_CODE_BLOCK_BACKTICK>>

(* C12: at the start of a document, three backticks followed by an info    *)
(* string byte open a FencedCode block: the call returns                   *)
(* FENCED_CODE_BLOCK_START and pushes FENCED_CODE_BACKTICK.                *)
C12_InfoStringFenceOpens ==
    (call.kind = "create"
        /\ StartsWith(input, <<BACKTICK, BACKTICK, BACKTICK, LETTER_A>>))
    => \A valid_symbols \in LineStartMasks :
           OpensBacktickFence(scan(Exec(Current, input), valid_symbols))

EmitsThematicBreak(r) == r.ret /\ r.result_symbol = THEMATIC_BREAK

(* C13: for the line "---\n" at a line start with indentation <= 3 and an  *)
(* empty block stack, a call whose mask holds THEMATIC_BREAK returns       *)
(* THEMATIC_BREAK.                                                         *)
C13_DashLineIsThematicBreak ==
    (open_blocks = <<>> /\ matched = 0 /\ indentation <= 3
        /\ StartsWith(input, <<MINUS, MINUS, MINUS, LF>>))
    => \A valid_symbols \in {v \in Masks : THEMATIC_BREAK \in v} :
           EmitsThematicBreak(scan(Exec(Current, input), valid_symbols))

(* What C14 asks of the execution r of one call made at the end of input.  *)
EofStep(r) ==
    IF open_blocks # <<>>
    THEN /\ r.ret
         /\ r.result_symbol = (IF IsLoose(open_blocks[Len(open_blocks)])
                               THEN BLOCK_CLOSE_LOOSE ELSE BLOCK_CLOSE)
         /\ r.open_blocks = SubSeq(open_blocks, 1, Len(open_blocks) - 1)
    ELSE /\ ~r.ret
         /\ ScannerPart(r) = Current

(* C14: at the end of input every call, whatever its mask, pops exactly    *)
(* the top block and returns BLOCK_CLOSE_LOOSE for a Loose list item and   *)
(* BLOCK_CLOSE otherwise; with an empty stack it returns false and leaves  *)
(* the scanner unchanged.  Each call shortens the stack by one, so n open  *)
(* blocks are closed by exactly n calls.                                   *)
C14_EofClosesOnePerCall ==
    input = <<>>
    => \A valid_symbols \in Masks :
           EofStep(scan(Exec(Current, input), valid_symbols))

(* A Loose list item was just closed at the end of input and an enclosing  *)
(* block is still open.                                                    *)
C14_Witness ==
    /\ input = <<>>
    /\ call.kind = "scan" /\ call.at_eof /\ call.ret
    /\ call.result_symbol = BLOCK_CLOSE_LOOSE
    /\ open_blocks # <<>>

CloseSymbols == {BLOCK_CLOSE, BLOCK_CLOSE_LOOSE}

(* The block at index matched is a fenced code block and the line begins   *)
(* with its fence character: a close here is the match of a closing fence. *)
AtClosingFence(valid_symbols) ==
    /\ BLOCK_CLOSE \in valid_symbols
    /\ \/ open_blocks[matched + 1] = FENCED_CODE_BLOCK_TILDE /\ Head(input) = TILDE
       \/ open_blocks[matched + 1] = FENCED_CODE_BLOCK_BACKTICK /\ Head(input) = BACKTICK

(* The execution r popped exactly the top of blocks, kept matched and      *)
(* consumed nothing.                                                       *)
PoppedTop(r, blocks) ==
    /\ r.ret /\ ~r.ub
    /\ r.result_symbol \in CloseSymbols
    /\ r.open_blocks = SubSeq(blocks, 1, Len(blocks) - 1)
    /\ SubSeq(r.open_blocks, 1, matched) = SubSeq(open_blocks, 1, matched)
    /\ r.matched = matched
    /\ Consumed(r) = 0

(* What C15 asks of the execution r of one call in the line-prefix phase.  *)
UnwindStep(r, valid_symbols) ==
    /\ r.ret
    /\ r.result_symbol \in
           CloseSymbols \cup {BLOCK_CONTINUATION, LAZY_CONTINUATION, INDENTATION}
    /\ (r.result_symbol \in CloseSymbols /\ ~AtClosingFence(valid_symbols))
       => /\ PoppedTop(r, open_blocks)
          /\ Len(r.open_blocks) > matched
             => PoppedTop(scan(Exec(ScannerPart(r), input), valid_symbols),
                          r.open_blocks)

(* C15: in the line-prefix phase every call returns a continuation, a      *)
(* close or INDENTATION; a close that is not the match of a closing fence  *)
(* pops exactly the top block, consumes nothing, leaves matched and the    *)
(* blocks below matched as they were, and the next call with the same mask *)
(* does the same as long as open_blocks.size() > matched.                  *)
C15_UnwindPopsOnePerCall ==
    (matched < Len(open_blocks) /\ input # <<>>)
    => \A valid_symbols \in Masks :
           UnwindStep(scan(Exec(Current, input), valid_symbols), valid_symbols)

(* A block was just closed on match failure above a matched container,     *)
(* and another unmatched block is still open.                              *)
C15_Witness ==
    /\ call.kind = "scan" /\ call.ret /\ ~call.at_eof
    /\ call.result_symbol \in CloseSymbols
    /\ input # <<>>
    /\ matched >= 1
    /\ matched < Len(open_blocks)

(* What C16 asks of the execution r of one call with the mask.             *)
LazyStep(r, valid_symbols) ==
    (r.ret /\ r.result_symbol = LAZY_CONTINUATION)
    => /\ matched < Len(open_blocks)
       /\ LAZY_CONTINUATION \in valid_symbols
       /\ ~Probe(Exec(Current, input), valid_symbols).ret
       /\ r.matched = Len(open_blocks) + 1
       /\ r.indentation = 0
       /\ r.open_blocks = open_blocks

(* C16: a call returns LAZY_CONTINUATION only in the line-prefix phase,    *)
(* with LAZY_CONTINUATION in the mask and a block-opener probe of the line *)
(* that returns false; it then leaves matched = open_blocks.size() + 1,    *)
(* indentation = 0 and the stack unchanged.                                *)
C16_LazyContinuationEffect ==
    \A valid_symbols \in Masks :
        LazyStep(scan(Exec(Current, input), valid_symbols), valid_symbols)

(* The call whose execution reached line 750 as c makes the probe of line  *)
(* 753; the probe leaves the scanner as it found it.                       *)
ProbeKeepsScanner(c, valid_symbols) ==
    (/\ ~c.done
     /\ Matching(c, FALSE)
     /\ LAZY_CONTINUATION \in valid_symbols
     /\ ~(/\ BLOCK_CONTINUATION \in valid_symbols
          /\ BlockAtMatched(c) \in {FENCED_CODE_BLOCK_TILDE,
                                    FENCED_CODE_BLOCK_BACKTICK}))
    => ScannerPart(Probe(mark_end(c), valid_symbols)) = ScannerPart(c)

(* C17: a probe call (scan with check_block = true, made at line 753)      *)
(* leaves every field of the scanner unchanged, whatever it returns.       *)
C17_ProbeLeavesScanner ==
    \A valid_symbols \in Masks :
        ProbeKeepsScanner(ScanCore(Exec(Current, input), valid_symbols, FALSE),
                          valid_symbols)

BlockOpeners ==
    {BLOCK_QUOTE_START, FENCED_CODE_BLOCK_START, THEMATIC_BREAK}
        \cup (ATX_H1_MARKER..ATX_H6_MARKER)
        \cup {SETEXT_H1_UNDERLINE, SETEXT_H2_UNDERLINE,
              SETEXT_H2_UNDERLINE_OR_THEMATIC_BREAK}
        \cup (LIST_MARKER_MINUS..LIST_MARKER_DOT)

(* The execution r neither opened a block nor closed a fenced code block   *)
(* on its closing fence.                                                   *)
NoOpenerNoFenceClose(r, valid_symbols) ==
    r.ret
    => /\ r.result_symbol \notin BlockOpeners
       /\ ~(/\ r.result_symbol = BLOCK_CLOSE
            /\ matched < Len(open_blocks)
            /\ AtClosingFence(valid_symbols)
            /\ Consumed(r) > 0)

(* C18: a call that starts with indentation > 3 returns no block-opener    *)
(* token and closes no fenced code block on a closing fence.               *)
C18_NoOpenerWhenIndented ==
    (indentation > 3 /\ input # <<>>)
    => \A valid_symbols \in Masks :
           NoOpenerNoFenceClose(scan(Exec(Current, input), valid_symbols),
                                valid_symbols)

ListMarkers == LIST_MARKER_MINUS..LIST_MARKER_DOT

RECURSIVE LeadingDigits(_)
LeadingDigits(bytes) ==
    IF bytes # <<>> /\ Head(bytes) >= DIGIT0 /\ Head(bytes) <= DIGIT9
    THEN 1 + LeadingDigits(Tail(bytes))
    ELSE 0

(* w: 1 for a bullet, digits + 1 for an ordered marker.                    *)
MarkerWidth(bytes) ==
    IF Head(bytes) \in {PLUS, MINUS, STAR} THEN 1 ELSE LeadingDigits(bytes) + 1

(* s: the columns covered by the spaces and tabs at the head of bytes, the *)
(* first of them standing at column col.                                   *)
RECURSIVE SpaceColumns(_, _)
SpaceColumns(bytes, col) ==
    IF bytes = <<>> THEN 0
    ELSE IF Head(bytes) = SPACE THEN 1 + SpaceColumns(Tail(bytes), col + 1)
    ELSE IF Head(bytes) = TAB
    THEN (4 - (col % 4)) + SpaceColumns(Tail(bytes), col + 4 - (col % 4))
    ELSE 0

(* What C19 asks of the execution r that returned a list marker of width w *)
(* followed by s >= 1 columns of spaces and tabs.                          *)
ListItemPushed(r, w, s) ==
    (r.ret /\ r.result_symbol \in ListMarkers /\ s >= 1)
    => /\ r.open_blocks # <<>>
       /\ IsTight(r.open_blocks[Len(r.open_blocks)])
       /\ list_item_indentation(r.open_blocks[Len(r.open_blocks)])
              = indentation + w + Min(s, 4)
       /\ s > 4 => r.indentation = s - 1

(* C19: when a list marker token is returned, the pushed Tight list item   *)
(* has contentIndent = indentation at the start of the call + w +          *)
(* min(s, 4), and when s > 4 the indentation after the call is s - 1.      *)
C19_ListItemContentIndent ==
    input # <<>>
    => \A valid_symbols \in Masks :
           ListItemPushed(scan(Exec(Current, input), valid_symbols),
                          MarkerWidth(input),
                          SpaceColumns(SubSeq(input, MarkerWidth(input) + 1, Len(input)),
                                       column + MarkerWidth(input)))

RECURSIVE AfterSpaces(_)
AfterSpaces(bytes) ==
    IF bytes # <<>> /\ Head(bytes) \in {SPACE, TAB}
    THEN AfterSpaces(Tail(bytes))
    ELSE bytes

(* C19 for bullet markers followed by at most four columns of whitespace   *)
(* and then by something other than a line ending.                         *)
C19_BulletContentIndent ==
    (/\ input # <<>>
     /\ Head(input) \in {PLUS, MINUS, STAR}
     /\ SpaceColumns(Tail(input), column + 1) <= 4
     /\ (AfterSpaces(Tail(input)) = <<>> \/ ~IsLineEnd(Head(AfterSpaces(Tail(input))))))
    => C19_ListItemContentIndent

(* C19 for ordered markers followed by at most four columns of whitespace. *)
C19_OrderedContentIndent ==
    (/\ LeadingDigits(input) >= 1
     /\ SpaceColumns(SubSeq(input, MarkerWidth(input) + 1, Len(input)),
                     column + MarkerWidth(input)) <= 4)
    => C19_ListItemContentIndent

(* Every tag is a value of enum Block, and a list item's contentIndent is  *)
(* within 2..8.                                                            *)
BlocksInRange(blocks) ==
    \A i \in 1..Len(blocks) :
        /\ blocks[i] \in BLOCK_QUOTE..FENCED_CODE_BLOCK_BACKTICK
        /\ is_list_item(blocks[i]) => list_item_indentation(blocks[i]) \in 2..8

(* The list items of before that are still on the stack in after are list  *)
(* items with the same contentIndent.                                      *)
ContentIndentKept(before, after) ==
    \A i \in 1..Min(Len(before), Len(after)) :
        is_list_item(before[i])
        => /\ is_list_item(after[i])
           /\ list_item_indentation(after[i]) = list_item_indentation(before[i])

(* C20: in every step the stack holds only tags of enum Block, every list  *)
(* item on it has contentIndent in 2..8, a list marker pushes a Tight      *)
(* item, and an item that stays on the stack keeps its contentIndent, the  *)
(* Tight-to-Loose conversion included.                                     *)
C20_ContentIndentStable ==
    [][/\ BlocksInRange(open_blocks')
       /\ ContentIndentKept(open_blocks, open_blocks')
       /\ (call'.kind = "scan" /\ call'.ret /\ call'.result_symbol \in ListMarkers)
          => /\ Len(open_blocks') = Len(open_blocks) + 1
             /\ IsTight(open_blocks'[Len(open_blocks')])]_vars

(* A BLANK_LINE was just returned and a list item with the largest         *)
(* contentIndent is Loose.                                                 *)
C20_Witness ==
    /\ call.kind = "scan" /\ call.ret
    /\ call.result_symbol = BLANK_LINE
    /\ \E i \in 1..Len(open_blocks) :
           /\ IsLoose(open_blocks[i])
           /\ list_item_indentation(open_blocks[i]) = 8

(* ---- fenced code blocks opened by a fence of three characters ---------- *)
Run(c, n) == [i \in 1..n |-> c]

(* An opening fence line, one line of content, and a closing candidate of  *)
(* one to three fence characters.                                          *)
FenceDocuments ==
    { Run(open, 3) \o <<LF>> \o content \o <<LF>> \o Run(close, n) \o <<LF>> :
          open \in {TILDE, BACKTICK}, close \in {TILDE, BACKTICK}, n \in 1..3,
          content \in {<<LETTER_A>>, <<BACKTICK>>} }

InitFence ==
    /\ InitScanner(Fresh)
    /\ input \in FenceDocuments
    /\ prev = NUL
    /\ InitHistory

SpecFence == InitFence /\ [][Next]_vars

RECURSIVE LeadingRun(_, _)
LeadingRun(bytes, c) ==
    IF bytes # <<>> /\ Head(bytes) = c THEN 1 + LeadingRun(Tail(bytes), c) ELSE 0

FenceChar(block) == IF block = FENCED_CODE_BLOCK_TILDE THEN TILDE ELSE BACKTICK

(* The execution r closed the fenced code block on a fence line: then the  *)
(* line's run is of the block's fence character and at least n long.       *)
FenceClosedBy(r, block, n) ==
    (r.ret /\ r.result_symbol = BLOCK_CLOSE /\ Consumed(r) > 0)
    => LeadingRun(input, FenceChar(block)) >= n

(* C21: a fenced code block opened by a run of three fence characters is   *)
(* closed on a fence line only if the line's run is of the same character  *)
(* and at least three long, whatever tokens were returned in between.      *)
C21_FenceClosedByLongEnoughRun ==
    (/\ input # <<>>
     /\ matched < Len(open_blocks)
     /\ open_blocks[matched + 1] \in {FENCED_CODE_BLOCK_TILDE, FENCED_CODE_BLOCK_BACKTICK})
    => \A valid_symbols \in Masks :
           FenceClosedBy(scan(Exec(Current, input), valid_symbols),
                         open_blocks[matched + 1], 3)

(* ---- lines that begin with '-' ----------------------------------------- *)
MaxDashes == 5

(* A '-' followed by up to MaxDashes - 1 minus signs and spaces, then the  *)
(* end of input, a line ending, or content.                                *)
DashInputs ==
    { <<MINUS>> \o body \o rest :
          body \in Strings({MINUS, SPACE}, MaxDashes - 1),
          rest \in {<<>>, <<LF>>, <<LETTER_A, LF>>} }

InitDash ==
    /\ InitScanner(Fresh)
    /\ input \in DashInputs
    /\ prev = NUL
    /\ InitHistory

SpecDash == InitDash /\ [][Next]_vars

(* The longest prefix of bytes made of '-', spaces and tabs.               *)
RECURSIVE DashPrefix(_)
DashPrefix(bytes) ==
    IF bytes # <<>> /\ Head(bytes) \in {MINUS, SPACE, TAB}
    THEN <<Head(bytes)>> \o DashPrefix(Tail(bytes))
    ELSE <<>>

MinusCount(bytes) == Cardinality({i \in 1..Len(bytes) : bytes[i] = MINUS})

(* The byte after the dash prefix is a line ending.                        *)
DashLineEnds ==
    /\ Len(input) > Len(DashPrefix(input))
    /\ IsLineEnd(input[Len(DashPrefix(input)) + 1])

(* >= 3 minus signs, separated by nothing but spaces and tabs, to line end *)
IsThematicBreakLine == MinusCount(DashPrefix(input)) >= 3 /\ DashLineEnds

(* a run of minus signs with no whitespace before a later minus, to line   *)
(* end                                                                     *)
IsUnderlineLine ==
    /\ LeadingRun(input, MINUS) = MinusCount(DashPrefix(input))
    /\ DashLineEnds

(* one '-' followed by >= 1 space or tab and then content                  *)
IsListMarkerOnlyLine ==
    /\ MinusCount(DashPrefix(input)) = 1
    /\ Len(DashPrefix(input)) >= 2
    /\ Len(input) > Len(DashPrefix(input))
    /\ ~DashLineEnds

(* What C22 asks of the execution r of a call at a line that begins '-'.   *)
DashStep(r, valid_symbols) ==
    /\ (/\ IsThematicBreakLine /\ IsUnderlineLine
        /\ SETEXT_H2_UNDERLINE_OR_THEMATIC_BREAK \in valid_symbols)
       => (r.ret /\ r.result_symbol = SETEXT_H2_UNDERLINE_OR_THEMATIC_BREAK
              /\ r.open_blocks = open_blocks)
    /\ (IsListMarkerOnlyLine /\ LIST_MARKER_MINUS \in valid_symbols)
       => /\ r.ret /\ r.result_symbol = LIST_MARKER_MINUS
          /\ Len(r.open_blocks) = Len(open_blocks) + 1
          /\ IsTight(r.open_blocks[Len(r.open_blocks)])
    /\ (r.ret /\ r.result_symbol = THEMATIC_BREAK)
       => (IsThematicBreakLine /\ ~IsUnderlineLine)

(* C22: at a line that begins with '-' in the opener phase with            *)
(* indentation <= 3: a line that is both thematic break and underline      *)
(* gives the combined token when that is valid; a line with only the list  *)
(* marker reading gives LIST_MARKER_MINUS and pushes a Tight item when     *)
(* that is valid; THEMATIC_BREAK is returned only for a thematic break     *)
(* that is not an underline.                                               *)
C22_DashDispatch ==
    (/\ input # <<>> /\ Head(input) = MINUS
     /\ matched = Len(open_blocks)
     /\ indentation <= 3)
    => \A valid_symbols \in Masks :
           DashStep(scan(Exec(Current, input), valid_symbols), valid_symbols)

(* THEMATIC_BREAK was just returned for a line of dashes.                  *)
C22_Witness ==
    /\ call.kind = "scan" /\ call.ret
    /\ call.result_symbol = THEMATIC_BREAK
    /\ prev = MINUS

(* ---- lines that begin with a run of '#' -------------------------------- *)
MaxHashes == 8

MaxIndent == 4

(* 0..MaxIndent spaces, 1..MaxHashes '#', then the end of input, a space,  *)
(* a tab, a line ending or content.                                        *)
HashInputs ==
    { Spaces(k) \o Run(HASH, n) \o rest :
          k \in 0..MaxIndent, n \in 1..MaxHashes,
          rest \in {<<>>, <<SPACE, LETTER_A>>, <<TAB>>, <<LF>>, <<CR, LF>>,
                    <<LETTER_A>>} }

InitHash ==
    /\ InitScanner(Fresh)
    /\ input \in HashInputs
    /\ prev = NUL
    /\ InitHistory

SpecHash == InitHash /\ [][Next]_vars

AtxMarkers == ATX_H1_MARKER..ATX_H6_MARKER

(* What C23 asks of the execution r of a call at a run of L '#' followed   *)
(* by the byte after (NUL at the end of input).                            *)
AtxStep(r, L, after) ==
    /\ (r.ret /\ r.result_symbol \in AtxMarkers)
       <=> (L >= 1 /\ L <= 6 /\ after \in {SPACE, TAB, LF, CR})
    /\ (r.ret /\ r.result_symbol \in AtxMarkers)
       => /\ r.result_symbol = ATX_H1_MARKER + (L - 1)
          /\ r.matched = (matched + 1) % 256
          /\ r.indentation = 0
          /\ r.open_blocks = open_blocks
          /\ Consumed(r) = L

AfterRun(c) ==
    IF Len(input) > LeadingRun(input, c) THEN input[LeadingRun(input, c) + 1] ELSE NUL

(* not prevWs and (not prevPunct or nextPunct or nextWs)                   *)
IsRightFlanking(valid_symbols, next) ==
    /\ LAST_TOKEN_WHITESPACE \notin valid_symbols
    /\ (LAST_TOKEN_PUNCTUATION \notin valid_symbols
           \/ is_punctuation(next) \/ is_whitespace(next))

(* not nextWs and (not nextPunct or prevPunct or prevWs)                   *)
IsLeftFlanking(valid_symbols, next) ==
    /\ ~is_whitespace(next)
    /\ (~is_punctuation(next)
           \/ LAST_TOKEN_PUNCTUATION \in valid_symbols
           \/ LAST_TOKEN_WHITESPACE \in valid_symbols)

(* What C24 asks of the execution r of a call at the head of a '*' run.    *)
StarHeadStep(r, valid_symbols, next) ==
    IF EMPHASIS_CLOSE_STAR \in valid_symbols /\ IsRightFlanking(valid_symbols, next)
    THEN r.ret /\ r.result_symbol = EMPHASIS_CLOSE_STAR
    ELSE IF IsLeftFlanking(valid_symbols, next)
    THEN r.ret /\ r.result_symbol = EMPHASIS_OPEN_STAR
    ELSE ~r.ret

(* The scanner is in the inline phase at the head of a run of c.           *)
AtRunHead(c) ==
    /\ input # <<>> /\ Head(input) = c
    /\ matched > Len(open_blocks)
    /\ num_emphasis_delimiters_left = 0

(* The call reaches the emphasis branch for open_symbol and close_symbol:  *)
(* one of them is valid and no VIRTUAL_SPACE is due.                       *)
AsksEmphasis(valid_symbols, open_symbol, close_symbol) ==
    /\ open_symbol \in valid_symbols \/ close_symbol \in valid_symbols
    /\ ~(VIRTUAL_SPACE \in valid_symbols /\ indentation > 0)

TerminatorLen(bytes) ==
    IF Head(bytes) = CR /\ Len(bytes) >= 2 /\ bytes[2] = LF THEN 2 ELSE 1

LineEndingStep(r) ==
    (r.ret /\ r.result_symbol = LINE_ENDING) => Consumed(r) = TerminatorLen(input)

(* C26: a scan call that returns LINE_ENDING moves the lexer past exactly  *)
(* the bytes of the line terminator at the head of the input, and past no  *)
(* byte of the following line.                                             *)
C26_LineEndingConsumesTerminator ==
    input # <<>>
    => \A valid_symbols \in Masks :
           LineEndingStep(scan(Exec(Current, input), valid_symbols))

(* The same for a terminator that starts with \n.                          *)
C26_LineFeedConsumed ==
    (input # <<>> /\ Head(input) = LF)
    => \A valid_symbols \in Masks :
           LineEndingStep(scan(Exec(Current, input), valid_symbols))

(* What C25 asks of the execution r of a call at the head of a '_' run.    *)
UnderscoreHeadStep(r, valid_symbols, next) ==
    LET rf == IsRightFlanking(valid_symbols, next)
        lf == IsLeftFlanking(valid_symbols, next)
        prevPunct == LAST_TOKEN_PUNCTUATION \in valid_symbols
        nextPunct == is_punctuation(next)
    IN  /\ (r.ret /\ r.result_symbol = EMPHASIS_CLOSE_UNDERSCORE)
               => (rf /\ (~lf \/ nextPunct))
        /\ (r.ret /\ r.result_symbol = EMPHASIS_OPEN_UNDERSCORE)
               => (lf /\ (~rf \/ prevPunct))
        /\ (lf /\ rf /\ ~prevPunct /\ ~nextPunct)
               => ~(r.ret /\ r.result_symbol \in {EMPHASIS_OPEN_UNDERSCORE,
                                                  EMPHASIS_CLOSE_UNDERSCORE})

CodeContainers == {<<GT, SPACE>>, <<MINUS, SPACE>>}

CodeOpeners == {Run(TILDE, 3), Run(BACKTICK, 3), Spaces(4) \o <<LETTER_A>>}

(* The prefix that continues the container on the second line.             *)
CodeContinuation(container) ==
    IF Head(container) = GT THEN <<GT, SPACE>> ELSE Spaces(2)

(* Second lines that would open or close a block outside a code block.     *)
CodeSecondLines ==
    { <<GT, SPACE, LETTER_A>>,
      <<MINUS, SPACE, LETTER_A>>,
      Spaces(4) \o <<GT>>,
      <<HASH, SPACE, LETTER_A>>,
      Run(TILDE, 3),
      Run(BACKTICK, 3) }

CodeDocuments ==
    { container \o opener \o <<LF>> \o CodeContinuation(container) \o second \o <<LF>> :
          container \in CodeContainers, opener \in CodeOpeners,
          second \in CodeSecondLines }

InitCode ==
    /\ InitScanner(Fresh)
    /\ input \in CodeDocuments
    /\ prev = NUL
    /\ InitHistory

SpecCode == InitCode /\ [][Next]_vars

CodeBlocks == {INDENTED_CODE_BLOCK, FENCED_CODE_BLOCK_TILDE, FENCED_CODE_BLOCK_BACKTICK}

(* C27: in every reachable state a code block (indented or fenced) occurs  *)
(* in open_blocks only as its last element.                                *)
C27_CodeBlockOnlyOnTop ==
    \A i \in 1..Len(open_blocks) :
        open_blocks[i] \in CodeBlocks => i = Len(open_blocks)

(* A code block is open inside another block, and a later line has been    *)
(* matched against both.                                                   *)
C27_Witness ==
    /\ Len(open_blocks) >= 2
    /\ open_blocks[Len(open_blocks)] \in CodeBlocks
    /\ call.kind = "scan" /\ call.ret
    /\ call.result_symbol = BLOCK_CONTINUATION
    /\ matched = Len(open_blocks) + 1

(* The execution r, if it returned false, left the emphasis counters as    *)
(* they were.                                                              *)
DeclinedKeepsCounters(r) ==
    ~r.ret => /\ r.num_emphasis_delimiters = num_emphasis_delimiters
              /\ r.num_emphasis_delimiters_left = num_emphasis_delimiters_left

(* C28, the case it names: a scan call that returns false leaves           *)
(* num_emphasis_delimiters and num_emphasis_delimiters_left as they were.  *)
C28_DeclinedRunKeepsCounters ==
    \A valid_symbols \in Masks :
        DeclinedKeepsCounters(scan(Exec(Current, input), valid_symbols))

DeclinedKeepsScanner(r) == ~r.ret => ScannerPart(r) = Current

(* C28 in full: a scan call that returns false leaves every field of the   *)
(* scanner unchanged.                                                      *)
C28_DeclinedKeepsScanner ==
    \A valid_symbols \in Masks :
        DeclinedKeepsScanner(scan(Exec(Current, input), valid_symbols))

(* The execution r returned a token and made progress: matched grew, a     *)
(* block was popped, or at least one byte was consumed.                    *)
ProgressStep(r) ==
    /\ r.ret
    /\ \/ r.matched > matched
       \/ Len(r.open_blocks) < Len(open_blocks)
       \/ Consumed(r) >= 1

(* C29: with matched <= open_blocks.size() and the lexer not at the end of *)
(* the input, every scan call returns true and either increases matched,   *)
(* pops a block or consumes at least one byte.                             *)
C29_PrefixPhaseProgress ==
    (matched <= Len(open_blocks) /\ input # <<>>)
    => \A valid_symbols \in Masks :
           ProgressStep(scan(Exec(Current, input), valid_symbols))

====
